---------------------------- MODULE Spec2Model ----------------------------
(***************************************************************************)
(* Model of example/testdata.py of gocnn/gonpy: the generator of the .npy  *)
(* fixture corpus.  The script creates data/, then for every dtype of      *)
(* dtype_list, for dims in (1, 2), for order in ("C", "F") builds          *)
(* np.arange(8), reshapes it to (4, 2) when dims == 2 and saves it to      *)
(* data/{dtype_str}_{ii}.npy.                                              *)
(*                                                                         *)
(* Strings are sequences of one-character strings, so that slicing and     *)
(* formatting are computed.  An ndarray is a buffer with a shape and       *)
(* strides (in elements); a file is its header fields and its payload.     *)
(***************************************************************************)
EXTENDS Integers, Sequences, FiniteSets, TLC

VARIABLES pc, pathKind, fs, dtype_pos, dims_pos, order_pos, ii, dtype_str,
          data, err, run, log, written, fsStart, prevOutcome

vars == <<pc, pathKind, fs, dtype_pos, dims_pos, order_pos, ii, dtype_str,
          data, err, run, log, written, fsStart, prevOutcome>>

(* Number of times the script is run in a row. *)
MaxRuns == 2

-----------------------------------------------------------------------------
(* Source constants *)

dtype_list ==
  << [name |-> "int8",       kind |-> "i", itemsize |-> 1],
     [name |-> "int16",      kind |-> "i", itemsize |-> 2],
     [name |-> "int32",      kind |-> "i", itemsize |-> 4],
     [name |-> "int64",      kind |-> "i", itemsize |-> 8],
     [name |-> "uint8",      kind |-> "u", itemsize |-> 1],
     [name |-> "uint16",     kind |-> "u", itemsize |-> 2],
     [name |-> "uint32",     kind |-> "u", itemsize |-> 4],
     [name |-> "uint64",     kind |-> "u", itemsize |-> 8],
     [name |-> "float32",    kind |-> "f", itemsize |-> 4],
     [name |-> "float64",    kind |-> "f", itemsize |-> 8],
     [name |-> "complex64",  kind |-> "c", itemsize |-> 8],
     [name |-> "complex128", kind |-> "c", itemsize |-> 16] >>

dims_seq == <<1, 2>>

order_seq == <<"C", "F">>

ArangeStop == 8

ReshapeShape == <<4, 2>>

-----------------------------------------------------------------------------
(* Strings *)

DigitChar(d) == <<"0", "1", "2", "3", "4", "5", "6", "7", "8", "9">>[d + 1]

RECURSIVE Digits(_)
Digits(n) == IF n < 10 THEN <<DigitChar(n)>>
             ELSE Digits(n \div 10) \o <<DigitChar(n % 10)>>

(* np.dtype(dtype).str: byte-order character, kind, item size. *)
DtypeStr(dt) ==
  <<IF dt.itemsize = 1 THEN "|" ELSE "<">> \o <<dt.kind>> \o Digits(dt.itemsize)

(* np.dtype(dtype).str[1:] *)
DtypeCode(dt) == Tail(DtypeStr(dt))

(* output_dir / f"{dtype_str}_{ii}.npy", the directory part left out *)
Fname(code, i) == code \o <<"_">> \o Digits(i) \o <<".", "n", "p", "y">>

-----------------------------------------------------------------------------
(* Arrays *)

RECURSIVE Prod(_)
Prod(s) == IF s = <<>> THEN 1 ELSE Head(s) * Prod(Tail(s))

Reverse(s) == [i \in 1..Len(s) |-> s[Len(s) + 1 - i]]

(* strides, in elements, of a C-contiguous array of the shape *)
CStrides(shape) ==
  [i \in 1..Len(shape) |-> Prod(SubSeq(shape, i + 1, Len(shape)))]

(* FStrides computed from the wrong end *)
FStrides_AsC(shape) ==
  [i \in 1..Len(shape) |-> Prod(SubSeq(shape, i + 1, Len(shape)))]

(* strides, in elements, of an F-contiguous array of the shape *)
FStrides(shape) ==
  [i \in 1..Len(shape) |-> Prod(SubSeq(shape, 1, i - 1))]

(* the value k stored as an element of the dtype; complex has two parts *)
AsType(k, dt) == IF dt.kind = "c" THEN <<k, 0>> ELSE <<k>>

NoDtype == [name |-> "", kind |-> "", itemsize |-> 0]

NoArray == [dtype |-> NoDtype, shape |-> <<>>, strides |-> <<>>, buf |-> <<>>]

(* np.arange(n, dtype=dt) *)
Arange(n, dt) ==
  [dtype   |-> dt,
   shape   |-> <<n>>,
   strides |-> <<1>>,
   buf     |-> [k \in 1..n |-> AsType(k - 1, dt)]]

(* Reshape with the order argument dropped *)
Reshape_IgnoreOrder(a, shape, ord) ==
  [dtype   |-> a.dtype,
   shape   |-> shape,
   strides |-> CStrides(shape),
   buf     |-> a.buf]

(* a.reshape(shape, order=ord) of a contiguous 1-D array: a view of the     *)
(* same buffer read and placed in the given index order                     *)
Reshape(a, shape, ord) ==
  [dtype   |-> a.dtype,
   shape   |-> shape,
   strides |-> IF ord = "F" THEN FStrides(shape) ELSE CStrides(shape),
   buf     |-> a.buf]

(* MakeData with the test on the layout instead of on dims *)
MakeData_ReshapeOnF(dt, nd, ord) ==
  IF ord = "F" THEN Reshape(Arange(ArangeStop, dt), ReshapeShape, ord)
  ELSE Arange(ArangeStop, dt)

(* MakeData with the test on dims left out *)
MakeData_AlwaysReshape(dt, nd, ord) ==
  Reshape(Arange(ArangeStop, dt), ReshapeShape, ord)

(* lines 30-34: the array of one iteration *)
MakeData(dt, nd, ord) ==
  IF nd = 2 THEN Reshape(Arange(ArangeStop, dt), ReshapeShape, ord)
  ELSE Arange(ArangeStop, dt)

RECURSIVE Offset(_, _)
Offset(idx, strides) ==
  IF idx = <<>> THEN 0
  ELSE Head(idx) * Head(strides) + Offset(Tail(idx), Tail(strides))

(* a[idx], idx a 0-based index tuple *)
At(a, idx) == a.buf[1 + Offset(idx, a.strides)]

(* the index tuple of the n-th element (0-based) in row-major traversal *)
Unravel(n, shape) ==
  [i \in 1..Len(shape) |-> (n \div CStrides(shape)[i]) % shape[i]]

c_contiguous(a) == a.strides = CStrides(a.shape)

f_contiguous(a) == a.strides = FStrides(a.shape)

(* a.T *)
Transpose(a) ==
  [dtype |-> a.dtype, shape |-> Reverse(a.shape),
   strides |-> Reverse(a.strides), buf |-> a.buf]

(* a.tobytes(): the elements in row-major traversal of the logical array *)
ToBytes(a) ==
  [n \in 1..Prod(a.shape) |-> At(a, Unravel(n - 1, a.shape))]

-----------------------------------------------------------------------------
(* Files *)

(* FortranOrder with the flag never set *)
FortranOrder_Never(a) == FALSE

(* the fortran_order entry of the header np.save writes *)
FortranOrder(a) ==
  IF c_contiguous(a) THEN FALSE ELSE f_contiguous(a)

(* Payload always taken row by row *)
Payload_RowMajor(a) == ToBytes(a)

(* the element payload np.save writes *)
Payload(a) ==
  IF f_contiguous(a) /\ ~c_contiguous(a) THEN ToBytes(Transpose(a))
  ELSE ToBytes(a)

(* the file np.save(fname, a) leaves when it succeeds *)
NpySave(a) ==
  [complete      |-> TRUE,
   descr         |-> DtypeStr(a.dtype),
   fortran_order |-> FortranOrder(a),
   shape         |-> a.shape,
   payload       |-> Payload(a)]

(* a file opened for writing whose write did not finish *)
Truncated ==
  [complete |-> FALSE, descr |-> <<>>, fortran_order |-> FALSE,
   shape |-> <<>>, payload |-> <<>>]

NoFiles == [n \in {} |-> Truncated]

Put(files, name, content) ==
  [n \in (DOMAIN files) \cup {name} |->
     IF n = name THEN content ELSE files[n]]

-----------------------------------------------------------------------------
(* The script *)

dtype == dtype_list[dtype_pos]

dims == dims_seq[dims_pos]

order == order_seq[order_pos]

(* one call of np.save, as the run's history keeps it *)
Attempt == [name |-> Fname(dtype_str, ii), ii |-> ii, dtype_pos |-> dtype_pos,
            dims |-> dims, order |-> order, saved |-> NpySave(data)]

Init ==
  /\ pc = "mkdir"
  /\ pathKind \in {"absent", "dir", "file"}
  /\ fs = NoFiles
  /\ dtype_pos = 0
  /\ dims_pos = 0
  /\ order_pos = 0
  /\ ii = 0
  /\ dtype_str = <<>>
  /\ data = NoArray
  /\ err = "none"
  /\ run = 1
  /\ log = <<>>
  /\ written = {}
  /\ fsStart = NoFiles
  /\ prevOutcome = "none"

(* MkdirError without exist_ok *)
MkdirError_NoExistOk(kind) ==
  IF kind \in {"file", "dir"} THEN "FileExistsError" ELSE "none"

(* output_dir.mkdir(exist_ok=True): the error it raises on the path *)
MkdirError(kind) == IF kind = "file" THEN "FileExistsError" ELSE "none"

(* line 6, the directory is there afterwards *)
Mkdir ==
  /\ pc = "mkdir"
  /\ MkdirError(pathKind) = "none"
  /\ pathKind' = "dir"
  /\ pc' = "for_dtype"
  /\ dtype_pos' = 1
  /\ UNCHANGED <<fs, dims_pos, order_pos, ii, dtype_str, data, err, run, log,
                 written, fsStart, prevOutcome>>

(* line 6 raises: the path is a file, or the file system refuses *)
MkdirFail ==
  /\ pc = "mkdir"
  /\ \/ /\ MkdirError(pathKind) # "none"
        /\ err' = MkdirError(pathKind)
     \/ /\ MkdirError(pathKind) = "none"
        /\ err' = "OSError"
  /\ pc' = "failed"
  /\ UNCHANGED <<pathKind, fs, dtype_pos, dims_pos, order_pos, ii, dtype_str,
                 data, run, log, written, fsStart, prevOutcome>>

(* ForDtype with the counter set once, before the loop *)
ForDtype_NoReset ==
  /\ pc = "for_dtype"
  /\ IF dtype_pos > Len(dtype_list)
     THEN /\ pc' = "done"
          /\ UNCHANGED <<ii, dtype_str, dims_pos>>
     ELSE /\ ii' = IF dtype_pos = 1 THEN 1 ELSE ii
          /\ dtype_str' = DtypeCode(dtype)
          /\ dims_pos' = 1
          /\ pc' = "for_dims"
  /\ UNCHANGED <<pathKind, fs, dtype_pos, order_pos, data, err, run, log,
                 written, fsStart, prevOutcome>>

(* lines 24-26 *)
ForDtype ==
  /\ pc = "for_dtype"
  /\ IF dtype_pos > Len(dtype_list)
     THEN /\ pc' = "done"
          /\ UNCHANGED <<ii, dtype_str, dims_pos>>
     ELSE /\ ii' = 1
          /\ dtype_str' = DtypeCode(dtype)
          /\ dims_pos' = 1
          /\ pc' = "for_dims"
  /\ UNCHANGED <<pathKind, fs, dtype_pos, order_pos, data, err, run, log,
                 written, fsStart, prevOutcome>>

(* line 27 *)
ForDims ==
  /\ pc = "for_dims"
  /\ IF dims_pos > Len(dims_seq)
     THEN /\ dtype_pos' = dtype_pos + 1
          /\ pc' = "for_dtype"
          /\ UNCHANGED order_pos
     ELSE /\ order_pos' = 1
          /\ pc' = "for_order"
          /\ UNCHANGED dtype_pos
  /\ UNCHANGED <<pathKind, fs, dims_pos, ii, dtype_str, data, err, run, log,
                 written, fsStart, prevOutcome>>

(* line 28 *)
ForOrder ==
  /\ pc = "for_order"
  /\ IF order_pos > Len(order_seq)
     THEN /\ dims_pos' = dims_pos + 1
          /\ pc' = "for_dims"
     ELSE /\ pc' = "build"
          /\ UNCHANGED dims_pos
  /\ UNCHANGED <<pathKind, fs, dtype_pos, order_pos, ii, dtype_str, data, err,
                 run, log, written, fsStart, prevOutcome>>

(* lines 30-34 *)
Build ==
  /\ pc = "build"
  /\ data' = MakeData(dtype, dims, order)
  /\ pc' = "save"
  /\ UNCHANGED <<pathKind, fs, dtype_pos, dims_pos, order_pos, ii, dtype_str,
                 err, run, log, written, fsStart, prevOutcome>>

(* NextII with the increment left out *)
NextII_Stuck(i) == i

(* the counter after one write *)
NextII(i) == i + 1

(* lines 37-39, the write succeeds *)
Save ==
  /\ pc = "save"
  /\ fs' = Put(fs, Fname(dtype_str, ii), NpySave(data))
  /\ written' = written \cup {Fname(dtype_str, ii)}
  /\ log' = Append(log, Attempt)
  /\ ii' = NextII(ii)
  /\ order_pos' = order_pos + 1
  /\ pc' = "for_order"
  /\ UNCHANGED <<pathKind, dtype_pos, dims_pos, dtype_str, data, err, run,
                 fsStart, prevOutcome>>

(* SaveFail with the exception caught and the loop going on *)
SaveFail_Swallowed ==
  /\ pc = "save"
  /\ \/ UNCHANGED <<fs, written>>
     \/ /\ fs' = Put(fs, Fname(dtype_str, ii), Truncated)
        /\ written' = written \cup {Fname(dtype_str, ii)}
  /\ log' = Append(log, Attempt)
  /\ err' = "OSError"
  /\ ii' = NextII(ii)
  /\ order_pos' = order_pos + 1
  /\ pc' = "for_order"
  /\ UNCHANGED <<pathKind, dtype_pos, dims_pos, dtype_str, data, run,
                 fsStart, prevOutcome>>

(* line 38 raises: the file cannot be opened, and nothing changes, or the   *)
(* write stops part way, and the opened file stays as it is                 *)
SaveFail ==
  /\ pc = "save"
  /\ \/ UNCHANGED <<fs, written>>
     \/ /\ fs' = Put(fs, Fname(dtype_str, ii), Truncated)
        /\ written' = written \cup {Fname(dtype_str, ii)}
  /\ log' = Append(log, Attempt)
  /\ err' = "OSError"
  /\ pc' = "failed"
  /\ UNCHANGED <<pathKind, dtype_pos, dims_pos, order_pos, ii, dtype_str,
                 data, run, fsStart, prevOutcome>>

(* the script is started again; fsStart keeps the files a complete run     *)
(* left, for the comparison at the end of the run that follows it          *)
Rerun ==
  /\ pc \in {"done", "failed"}
  /\ run < MaxRuns
  /\ run' = run + 1
  /\ prevOutcome' = pc
  /\ fsStart' = IF pc = "done" THEN fs ELSE NoFiles
  /\ pc' = "mkdir"
  /\ dtype_pos' = 0
  /\ dims_pos' = 0
  /\ order_pos' = 0
  /\ ii' = 0
  /\ dtype_str' = <<>>
  /\ data' = NoArray
  /\ err' = "none"
  /\ log' = <<>>
  /\ written' = {}
  /\ UNCHANGED <<pathKind, fs>>

Next ==
  \/ Mkdir
  \/ MkdirFail
  \/ ForDtype
  \/ ForDims
  \/ ForOrder
  \/ Build
  \/ Save
  \/ SaveFail
  \/ Rerun

Spec == Init /\ [][Next]_vars

-----------------------------------------------------------------------------
(* Vocabulary of the properties, written from the documentation and not    *)
(* from the definitions above.                                             *)

(* the twelve type codes, in the documented order *)
TypeCodes ==
  << <<"i", "1">>, <<"i", "2">>, <<"i", "4">>, <<"i", "8">>,
     <<"u", "1">>, <<"u", "2">>, <<"u", "4">>, <<"u", "8">>,
     <<"f", "4">>, <<"f", "8">>, <<"c", "8">>, <<"c", "1", "6">> >>

CodeSet == {TypeCodes[t] : t \in 1..Len(TypeCodes)}

IndexChars == <<"1", "2", "3", "4">>

(* the file name X_n.npy *)
NpyName(X, n) == X \o <<"_", IndexChars[n], ".", "n", "p", "y">>

AllNames == {NpyName(X, n) : X \in CodeSet, n \in 1..4}

(* the name, dims and layout of the m-th step of the enumeration, m >= 1 *)
StepName(m) == NpyName(TypeCodes[((m - 1) \div 4) + 1], ((m - 1) % 4) + 1)

StepDims(m) == IF (m - 1) % 4 < 2 THEN 1 ELSE 2

StepOrder(m) == IF (m - 1) % 2 = 0 THEN "C" ELSE "F"

(* twelve types, two dims, two layouts *)
TotalWrites == Len(TypeCodes) * 2 * 2

(* the number an element stands for: its real part, the imaginary part 0 *)
IsNumber(e, v) == e[1] = v /\ (Len(e) = 2 => e[2] = 0)

(* what a reader of the format finds at row i, column j of a 2-D file: it  *)
(* takes the payload column by column when the header's flag is set and    *)
(* row by row when it is not                                               *)
FileAt2(f, i, j) ==
  IF f.fortran_order THEN f.payload[1 + j * f.shape[1] + i]
  ELSE f.payload[1 + i * f.shape[2] + j]

(* what a reader finds at position k of a 1-D file *)
FileAt1(f, k) == f.payload[1 + k]

(* the file holds the 2-D array given as a tuple of rows *)
Holds2(f, rows) ==
  /\ f.complete
  /\ f.shape = <<Len(rows), Len(rows[1])>>
  /\ \A i \in 1..Len(rows) : \A j \in 1..Len(rows[1]) :
       IsNumber(FileAt2(f, i - 1, j - 1), rows[i][j])

RowMajor42 == << <<0, 1>>, <<2, 3>>, <<4, 5>>, <<6, 7>> >>

ColMajor42 == << <<0, 4>>, <<1, 5>>, <<2, 6>>, <<3, 7>> >>

(* the file holds the 1-D array 0..7 *)
Holds1(f) ==
  /\ f.complete
  /\ f.shape = <<8>>
  /\ \A k \in 0..7 : IsNumber(FileAt1(f, k), k)

FirstRunDone == run = 1 /\ pc = "done"

-----------------------------------------------------------------------------
(* C1, as the documentation states it: after one complete run from an      *)
(* empty data/ directory, for every type code X exactly X_2.npy, X_3.npy   *)
(* and X_4.npy exist, and X_1.npy does not.                                *)
C1_Original ==
  FirstRunDone =>
    \A X \in CodeSet :
      {n \in 1..4 : NpyName(X, n) \in DOMAIN fs} = {2, 3, 4}

(* C1, amended: after one complete run from an empty data/ directory, the  *)
(* files of data/ are exactly X_1.npy, X_2.npy, X_3.npy and X_4.npy for    *)
(* every type code X; X_1.npy persists and holds the 1-D array 0..7.       *)
C1_Amended ==
  FirstRunDone =>
    /\ DOMAIN fs = AllNames
    /\ \A X \in CodeSet : Holds1(fs[NpyName(X, 1)])

C1_Witness ==
  /\ FirstRunDone
  /\ NpyName(<<"i", "4">>, 1) \in DOMAIN fs
  /\ Cardinality(DOMAIN fs) = TotalWrites

(* C2: within one run the writes go to pairwise distinct file names; at    *)
(* the end of a run there were 48 writes, all 48 files exist, and X_1.npy  *)
(* and X_2.npy have the same content for every type code X.                *)
C2_DistinctNames ==
  /\ \A m, n \in 1..Len(log) : log[m].name = log[n].name => m = n
  /\ pc = "done" =>
       /\ Len(log) = TotalWrites
       /\ Cardinality({log[m].name : m \in 1..Len(log)}) = TotalWrites
       /\ \A m \in 1..Len(log) : log[m].name \in DOMAIN fs
       /\ Cardinality(DOMAIN fs) = TotalWrites
       /\ \A X \in CodeSet : fs[NpyName(X, 1)] = fs[NpyName(X, 2)]

C2_Witness ==
  /\ pc = "done"
  /\ Len(log) = TotalWrites
  /\ log[1].order = "C" /\ log[2].order = "F"
  /\ log[1].dims = 1 /\ log[2].dims = 1

(* C3: after a complete run X_3.npy holds [[0,1],[2,3],[4,5],[6,7]] and    *)
(* X_4.npy holds [[0,4],[1,5],[2,6],[3,7]] for every type code X, and the  *)
(* index of every file name written is 2*(dims-1) + (1 for "C", 2 for      *)
(* "F"), whatever the element type.                                        *)
C3_IndexByDimsLayout ==
  /\ \A m \in 1..Len(log) :
       log[m].ii = 2 * (log[m].dims - 1) + (IF log[m].order = "C" THEN 1 ELSE 2)
  /\ pc = "done" =>
       \A X \in CodeSet :
         /\ Holds2(fs[NpyName(X, 3)], RowMajor42)
         /\ Holds2(fs[NpyName(X, 4)], ColMajor42)

C3_Witness ==
  /\ pc = "done"
  /\ \E m \in 1..Len(log) :
       log[m].name = NpyName(<<"i", "4">>, 4) /\ log[m].dims = 2
       /\ log[m].order = "F"
  /\ fs[NpyName(<<"i", "4">>, 4)].complete

(* the 0-based index tuples of an array of the shape, 1-D or 2-D *)
IndexTuples(shape) ==
  IF Len(shape) = 1 THEN {<<k>> : k \in 0..(shape[1] - 1)}
  ELSE {<<i, j>> : i \in 0..(shape[1] - 1), j \in 0..(shape[2] - 1)}

(* the documented positions of linear index k in the 4 x 2 array *)
RowMajorPos(k) == <<k \div 2, k % 2>>

ColMajorPos(k) == <<k % 4, k \div 4>>

(* C4: for dims=2 the element with linear index k, k in 0..7, is at        *)
(* (k // 2, k % 2) under row-major layout and at (k % 4, k // 4) under     *)
(* column-major layout; each mapping is a bijection onto the 8 positions   *)
(* and the values present are 0..7, each once.                             *)
C4_ReshapePositions ==
  (pc = "save" /\ dims = 2) =>
    /\ data.shape = <<4, 2>>
    /\ \A k \in 0..7 :
         IsNumber(At(data, IF order = "C" THEN RowMajorPos(k)
                           ELSE ColMajorPos(k)), k)
    /\ {RowMajorPos(k) : k \in 0..7} = IndexTuples(data.shape)
    /\ {ColMajorPos(k) : k \in 0..7} = IndexTuples(data.shape)
    /\ Cardinality(IndexTuples(data.shape)) = 8
    /\ \A v \in 0..7 :
         Cardinality({p \in IndexTuples(data.shape) :
                        IsNumber(At(data, p), v)}) = 1

C4_Witness ==
  /\ pc = "save" /\ dims = 2 /\ order = "F"
  /\ dtype.name = "complex64"
  /\ IsNumber(At(data, <<1, 1>>), 5)

(* C5: for dims=1, for every element type and both layouts, the array      *)
(* handed to the write has shape (8) and elements 0,1,...,7 in this order, *)
(* and so has the file that was written.                                   *)
C5_OneDimLayoutNoOp ==
  /\ (pc = "save" /\ dims = 1) =>
       /\ data.shape = <<8>>
       /\ \A k \in 0..7 : IsNumber(At(data, <<k>>), k)
  /\ \A m \in 1..Len(log) :
       log[m].dims = 1 =>
         /\ log[m].saved.shape = <<8>>
         /\ ~log[m].saved.fortran_order
         /\ \A k \in 0..7 : IsNumber(FileAt1(log[m].saved, k), k)

C5_Witness ==
  /\ pc = "save" /\ dims = 1 /\ order = "F"
  /\ data.shape = <<8>>
  /\ dtype.name = "float64"

(* the array a reader of the format rebuilds from a file: the payload,     *)
(* shaped by the header, column by column when the flag is set             *)
Load(f) ==
  [descr   |-> f.descr,
   shape   |-> f.shape,
   strides |-> IF f.fortran_order
               THEN [i \in 1..Len(f.shape) |->
                       Prod(SubSeq(f.shape, 1, i - 1))]
               ELSE [i \in 1..Len(f.shape) |->
                       Prod(SubSeq(f.shape, i + 1, Len(f.shape)))],
   buf     |-> f.payload]

JustSaved == pc = "for_order" /\ log # <<>>

LastFile == fs[log[Len(log)].name]

(* C6: reading back the file just written gives an array equal in dtype    *)
(* code, shape and value at every position to the array that was saved.    *)
C6_RoundTrip ==
  JustSaved =>
    /\ LastFile.complete
    /\ Load(LastFile).descr = DtypeStr(data.dtype)
    /\ Tail(Load(LastFile).descr) = TypeCodes[log[Len(log)].dtype_pos]
    /\ Load(LastFile).shape = data.shape
    /\ \A p \in IndexTuples(data.shape) : At(Load(LastFile), p) = At(data, p)

C6_Witness ==
  /\ JustSaved
  /\ log[Len(log)].dims = 2 /\ log[Len(log)].order = "F"
  /\ LastFile.fortran_order

(* C7: a run that follows a successful run does not fail because data/     *)
(* exists, and when it has succeeded the files are the same, with the same *)
(* content, as after the run before it.                                    *)
C7_Idempotent ==
  prevOutcome = "done" =>
    /\ err # "FileExistsError"
    /\ pc = "done" => fs = fsStart

C7_Witness ==
  /\ prevOutcome = "done" /\ pc = "done" /\ run = 2
  /\ Cardinality(DOMAIN fs) = TotalWrites
  /\ Len(log) = TotalWrites

(* the names of the first n steps of the enumeration *)
StepNames(n) == {StepName(m) : m \in 1..n}

(* the part of C8 on which the documentation and the script agree *)
C8_StopsNoRollback ==
  /\ err # "none" => pc = "failed"
  /\ pc = "failed" =>
       /\ \A m \in 1..Len(log) : log[m].name = StepName(m)
       /\ \A m \in 1..(Len(log) - 1) :
            /\ StepName(m) \in DOMAIN fs
            /\ fs[StepName(m)] = log[m].saved

(* C8, as the documentation states it: when the directory creation or a    *)
(* write fails the run stops there, earlier files stay as written, and the *)
(* files this run wrote are exactly those of the steps before the failing  *)
(* one.                                                                    *)
C8_Original ==
  /\ C8_StopsNoRollback
  /\ pc = "failed" => written = StepNames(Len(log) - 1)

(* C8, amended: when the directory creation or a write fails the run stops *)
(* there and earlier files stay as written; the files this run wrote in    *)
(* full are exactly those of the steps before the failing one, and the     *)
(* only other file it can have touched is the target of the failing write, *)
(* left incomplete.                                                        *)
C8_Amended ==
  /\ C8_StopsNoRollback
  /\ pc = "failed" =>
       /\ StepNames(Len(log) - 1) \subseteq written
       /\ written \subseteq StepNames(Len(log))
       /\ {w \in written : fs[w].complete} = StepNames(Len(log) - 1)
       /\ \A w \in written \ StepNames(Len(log) - 1) : ~fs[w].complete

C8_Witness ==
  /\ pc = "failed" /\ err = "OSError"
  /\ Len(log) = 7
  /\ StepName(7) \in written
  /\ fs[StepName(6)].complete

(* C9: without a file system error the writes are made in the order of the *)
(* twelve type codes, dims 1 then 2, layout C then F; a run ends after     *)
(* exactly 48 of them and, unless data is a file, can always take a step   *)
(* before that; the counter                                                *)
(* is 1 at the start of every type, grows by one with every write and is   *)
(* in 1..4 in every file name.                                             *)
C9_WriteOrder ==
  err = "none" =>
    /\ Len(log) <= TotalWrites
    /\ \A m \in 1..Len(log) :
         /\ log[m].name = StepName(m)
         /\ DtypeCode(dtype_list[log[m].dtype_pos])
              = TypeCodes[((m - 1) \div 4) + 1]
         /\ log[m].dims = StepDims(m)
         /\ log[m].order = StepOrder(m)
         /\ log[m].ii = ((m - 1) % 4) + 1
         /\ log[m].ii \in 1..4
    /\ pc = "done" => Len(log) = TotalWrites
    /\ (pc # "done" /\ pathKind # "file") =>
         ENABLED (Mkdir \/ ForDtype \/ ForDims \/ ForOrder \/ Build \/ Save)
    /\ (pc = "for_dims" /\ dims_pos = 1) => ii = 1
    /\ pc \in {"for_order", "build", "save"} =>
         ii = 1 + (Len(log) - 4 * (dtype_pos - 1))
    /\ pc = "save" => ii \in 1..4

C9_Witness ==
  /\ pc = "done" /\ err = "none"
  /\ Len(log) = TotalWrites
  /\ log[TotalWrites].name = NpyName(<<"c", "1", "6">>, 4)
  /\ log[5].ii = 1

(* the elements of an array row by row, and of a 2-D array column by       *)
(* column                                                                  *)
RowTraversal(a) ==
  IF Len(a.shape) = 1 THEN [n \in 1..a.shape[1] |-> At(a, <<n - 1>>)]
  ELSE [n \in 1..(a.shape[1] * a.shape[2]) |->
          At(a, <<(n - 1) \div a.shape[2], (n - 1) % a.shape[2]>>)]

ColTraversal(a) ==
  [n \in 1..(a.shape[1] * a.shape[2]) |->
     At(a, <<(n - 1) % a.shape[1], (n - 1) \div a.shape[1]>>)]

(* C10: the payload of every file written is the array traversed in the    *)
(* order its own flag names, the flag being set for the 2-D F file only;   *)
(* so every payload is 0,1,...,7, and X_3.npy and X_4.npy differ in the    *)
(* flag and in nothing else.                                               *)
C10_PayloadOrder ==
  /\ JustSaved =>
       /\ LastFile.fortran_order
            = (log[Len(log)].dims = 2 /\ log[Len(log)].order = "F")
       /\ LastFile.payload = IF LastFile.fortran_order THEN ColTraversal(data)
                             ELSE RowTraversal(data)
       /\ Len(LastFile.payload) = 8
       /\ \A k \in 0..7 : IsNumber(LastFile.payload[k + 1], k)
  /\ pc = "done" =>
       \A X \in CodeSet :
         /\ fs[NpyName(X, 4)].fortran_order
         /\ ~fs[NpyName(X, 3)].fortran_order
         /\ fs[NpyName(X, 3)] =
              [fs[NpyName(X, 4)] EXCEPT !.fortran_order = FALSE]

C10_Witness ==
  /\ pc = "done"
  /\ fs[NpyName(<<"u", "2">>, 4)].fortran_order
  /\ fs[NpyName(<<"u", "2">>, 4)].payload = fs[NpyName(<<"u", "2">>, 1)].payload

=============================================================================
